---- MODULE Spec2Model ----
(***************************************************************************)
(* FLOWCore connector for InOrbit: the layered configuration model         *)
(* (config/models.py), the lifecycle hooks of FlowcoreConnector            *)
(* (connector.py) and the process entry start() (flowcore_connector.py).   *)
(*                                                                         *)
(* Values read from YAML, the environment or an env file are modelled as   *)
(* their text; a YAML integer is the text of its literal.  An optional     *)
(* value is a sequence: <<>> when absent, <<v>> when present.              *)
(***************************************************************************)
EXTENDS Integers, Sequences, FiniteSets, TLC

VARIABLES
    kwargs,          \* keyword arguments of a direct FlowcoreConfig(...) call
    settings,        \* what that call produced
    environ,         \* os.environ: variable name -> optional value
    dotenv,          \* the variables of the file config/.env (all absent: no file)
    doc,             \* the configuration document named by --config
    config,          \* what FlowcoreConnectorConfig(**yaml_data) produced
    configLoads,     \* times start() has read the configuration document
    pc,              \* position of start() in flowcore_connector.py
    exitCode,        \* exit status of the process once pc = "exited"
    report,          \* what the operator was told at exit
    connector,       \* the FlowcoreConnector instance
    driver,          \* lifecycle state of the connector
    stopRequested,   \* stop() has been called on the connector
    sigints,         \* SIGINTs handled by the installed handler
    handlerInstalled,\* the SIGINT handler of start() is registered
    lifecycleLog,    \* INFO lines of the connect and disconnect hooks
    ticksInProgress, \* ticks started and neither completed nor abandoned
    tickBodyRan,     \* the hook of the tick in progress has run
    published,       \* publish_robot_key_values calls of the latest tick
    lastCommand,     \* outcome of the latest command hook invocation
    lastMap          \* outcome of the latest map hook invocation

configVars == <<kwargs, settings, environ, dotenv, doc, config>>
entryVars == <<pc, exitCode, report, connector, handlerInstalled, configLoads>>
driverVars == <<driver, stopRequested, sigints, lifecycleLog>>
tickVars == <<ticksInProgress, tickBodyRan, published>>
hookVars == <<lastCommand, lastMap>>
vars == <<kwargs, settings, environ, dotenv, doc, config, configLoads, pc, exitCode, report,
          connector, driver, stopRequested, sigints, handlerInstalled,
          lifecycleLog, ticksInProgress, tickBodyRan, published, lastCommand,
          lastMap>>

\* ------------------------------------------------------------------ bounds

MaxFleet == 3

MaxSigints == 2

\* ----------------------------------------------------------------- helpers

Opt(S) == {<<>>} \cup {<<v>> : v \in S}

Range(s) == {s[i] : i \in DOMAIN s}

\* dict.update: the entries of b override those of a
Merge(a, b) ==
    [k \in (DOMAIN a) \cup (DOMAIN b) |-> IF k \in DOMAIN b THEN b[k] ELSE a[k]]

\* str.upper() on the texts the configuration model upper-cases
Upper(s) ==
    CASE s = "flowcore" -> "FLOWCORE"
      [] s = "fleet_host" -> "FLEET_HOST"
      [] s = "fleet_port" -> "FLEET_PORT"
      [] s = "fleet_username" -> "FLEET_USERNAME"
      [] s = "fleet_password" -> "FLEET_PASSWORD"
      [] OTHER -> s

\* str.lower() on the variable names that occur
Lower(s) ==
    CASE s \in {"INORBIT_FLOWCORE_FLEET_HOST", "INORBIT_FLOWCORE_fleet_host"}
            -> "inorbit_flowcore_fleet_host"
      [] s \in {"INORBIT_FLOWCORE_FLEET_PORT", "INORBIT_FLOWCORE_fleet_port"}
            -> "inorbit_flowcore_fleet_port"
      [] s \in {"INORBIT_FLOWCORE_FLEET_USERNAME", "INORBIT_FLOWCORE_fleet_username"}
            -> "inorbit_flowcore_fleet_username"
      [] s \in {"INORBIT_FLOWCORE_FLEET_PASSWORD", "INORBIT_FLOWCORE_fleet_password"}
            -> "inorbit_flowcore_fleet_password"
      [] s = "FLOWCORE_FLEET_HOST" -> "flowcore_fleet_host"
      [] OTHER -> s

\* the texts that convert to an int, with their values
IntLiterals == {"1", "2", "3", "4", "80", "8080", "8443", "9000"}

IntOf(s) ==
    CASE s = "1" -> 1
      [] s = "2" -> 2
      [] s = "3" -> 3
      [] s = "4" -> 4
      [] s = "80" -> 80
      [] s = "8080" -> 8080
      [] s = "8443" -> 8443
      [] s = "9000" -> 9000
      [] OTHER -> -1

\* ------------------------------------------ config/models.py: FlowcoreConfig

CONNECTOR_TYPE == "flowcore"

fleet_port_default == 80

FieldSet == {"fleet_host", "fleet_port", "fleet_username", "fleet_password"}

HasDefault(f) == f = "fleet_port"

IsIntField(f) == f = "fleet_port"

\* model_config = SettingsConfigDict(...)
env_prefix == "INORBIT_" \o Upper(CONNECTOR_TYPE) \o "_"

env_ignore_empty_off == FALSE

env_ignore_empty == TRUE

case_sensitive_on == TRUE

case_sensitive == FALSE

\* The variables a settings source sees: empty values dropped when
\* env_ignore_empty, names lower-cased unless case_sensitive.
LoadEnvVars(variables) ==
    LET kept == {n \in DOMAIN variables :
                    /\ variables[n] # <<>>
                    /\ ~(env_ignore_empty /\ variables[n][1] = "")}
        key(n) == IF case_sensitive THEN n ELSE Lower(n)
    IN  [k \in {key(n) : n \in kept} |->
            variables[CHOOSE n \in kept : key(n) = k][1]]

\* The name a field is looked up under in a settings source
EnvName(f) ==
    IF case_sensitive THEN env_prefix \o f ELSE Lower(env_prefix \o f)

\* The fields a source of variables supplies
EnvSource(variables) ==
    LET loaded == LoadEnvVars(variables)
    IN  [f \in {g \in FieldSet : EnvName(g) \in DOMAIN loaded} |->
            loaded[EnvName(f)]]

\* The fields the keyword arguments supply: every key given, empty or not
InitSource(kw) ==
    [f \in {g \in FieldSet : kw[g] # <<>>} |-> kw[f][1]]

\* Sources by rising priority: the env file, the environment, the arguments
MergedSources(kw, env, envfile) ==
    Merge(Merge(EnvSource(envfile), EnvSource(env)), InitSource(kw))

FieldErrors(merged) ==
    {[loc |-> <<f>>, type |-> "missing", msg |-> <<"Field required">>] :
        f \in {g \in FieldSet : g \notin DOMAIN merged /\ ~HasDefault(g)}}
    \cup
    {[loc |-> <<f>>, type |-> "int_parsing",
      msg |-> <<"Input should be a valid integer">>] :
        f \in {g \in FieldSet : /\ IsIntField(g)
                                /\ g \in DOMAIN merged
                                /\ merged[g] \notin IntLiterals}}

\* FlowcoreConfig(**kw) with the environment env and the env file envfile
FlowcoreConfig(kw, env, envfile) ==
    LET merged == MergedSources(kw, env, envfile)
        errors == FieldErrors(merged)
    IN  IF errors # {}
        THEN [status |-> "error", errors |-> errors]
        ELSE [status |-> "ok",
              fleet_host |-> merged["fleet_host"],
              fleet_port |-> IF "fleet_port" \in DOMAIN merged
                             THEN IntOf(merged["fleet_port"])
                             ELSE fleet_port_default,
              fleet_username |-> merged["fleet_username"],
              fleet_password |-> merged["fleet_password"]]

\* ------------------------------ config/models.py: FlowcoreConnectorConfig

\* A fleet entry once its own fields are validated (cameras are not modelled)
FlowcoreRobotConfig(entry) ==
    [robot_id |-> entry.robot_id, fleet_robot_id |-> IntOf(entry.fleet_robot_id)]

check_connector_type_unless_empty(connector_type) ==
    IF connector_type # "" /\ connector_type # CONNECTOR_TYPE
    THEN [raised |-> TRUE,
          msg |-> <<"Expected connector type '", CONNECTOR_TYPE, "' not '",
                    connector_type, "'">>]
    ELSE [raised |-> FALSE, msg |-> <<>>]

\* @field_validator("connector_type"); msg is the f-string, part by part
check_connector_type(connector_type) ==
    IF connector_type # CONNECTOR_TYPE
    THEN [raised |-> TRUE,
          msg |-> <<"Expected connector type '", CONNECTOR_TYPE, "' not '",
                    connector_type, "'">>]
    ELSE [raised |-> FALSE, msg |-> <<>>]

validate_unique_neighbours(fleet) ==
    IF \E i \in DOMAIN fleet :
          i + 1 \in DOMAIN fleet
          /\ fleet[i].fleet_robot_id = fleet[i + 1].fleet_robot_id
    THEN [raised |-> TRUE, msg |-> <<"fleet_robot_id", " values must be unique">>]
    ELSE [raised |-> FALSE, msg |-> <<>>]

\* @model_validator(mode="after")
validate_unique_fleet_robot_ids(fleet) ==
    LET fleet_ids == [i \in DOMAIN fleet |-> fleet[i].fleet_robot_id]
    IN  IF Len(fleet_ids) # Cardinality(Range(fleet_ids))
        THEN [raised |-> TRUE,
              msg |-> <<"fleet_robot_id", " values must be unique">>]
        ELSE [raised |-> FALSE, msg |-> <<>>]

\* FlowcoreConnectorConfig(**data): every field is validated and the field
\* errors are reported together; the mode="after" validator runs only on a
\* model whose fields all validated.
FlowcoreConnectorConfig(data, env, envfile) ==
    LET typeCheck == check_connector_type(data.connector_type)
        connector_config == FlowcoreConfig(data.connector_config, env, envfile)
        fleet == [i \in DOMAIN data.fleet |-> FlowcoreRobotConfig(data.fleet[i])]
        fieldErrors ==
            (IF typeCheck.raised
             THEN {[loc |-> <<"connector_type">>, type |-> "value_error",
                    msg |-> typeCheck.msg]}
             ELSE {})
            \cup
            (IF connector_config.status = "error"
             THEN {[loc |-> <<"connector_config">> \o e.loc, type |-> e.type,
                    msg |-> e.msg] : e \in connector_config.errors}
             ELSE {})
            \cup
            {[loc |-> <<"fleet", ToString(i - 1), "fleet_robot_id">>,
              type |-> "int_parsing",
              msg |-> <<"Input should be a valid integer">>] :
                i \in {j \in DOMAIN data.fleet :
                          data.fleet[j].fleet_robot_id \notin IntLiterals}}
        unique == validate_unique_fleet_robot_ids(fleet)
    IN  IF fieldErrors # {}
        THEN [status |-> "error", errors |-> fieldErrors]
        ELSE IF unique.raised
        THEN [status |-> "error",
              errors |-> {[loc |-> <<>>, type |-> "value_error",
                           msg |-> unique.msg]}]
        ELSE [status |-> "ok",
              connector_type |-> data.connector_type,
              connector_config |-> connector_config,
              fleet |-> fleet]

\* --------------------------------------------------- inputs and idle values

Unset == [status |-> "unset"]

KwargsSet ==
    [fleet_host : Opt({"", "yaml-fleet.example.com"}),
     fleet_port : Opt({"", "8080"}),
     fleet_username : Opt({"", "yaml-user"}),
     fleet_password : Opt({"", "yaml-pass"})]

\* Two names that differ only in case are never both set: which of them a
\* case-insensitive lookup then returns depends on the platform's ordering.
EnvironSet ==
    {e \in [INORBIT_FLOWCORE_FLEET_HOST : Opt({"", "env-fleet.example.com"}),
            inorbit_flowcore_fleet_host : Opt({"env-lower.example.com"}),
            FLOWCORE_FLEET_HOST : Opt({"unprefixed.example.com"}),
            INORBIT_FLOWCORE_FLEET_PORT : Opt({"", "8443"}),
            INORBIT_FLOWCORE_FLEET_USERNAME : Opt({"", "env-user"}),
            INORBIT_FLOWCORE_FLEET_PASSWORD : Opt({"", "env-pass"})] :
        e.INORBIT_FLOWCORE_FLEET_HOST = <<>> \/ e.inorbit_flowcore_fleet_host = <<>>}

DotenvSet ==
    [INORBIT_FLOWCORE_FLEET_HOST : Opt({"dotenv-fleet.example.com"}),
     INORBIT_FLOWCORE_FLEET_PORT : Opt({"9000"})]

EmptyEnviron ==
    [INORBIT_FLOWCORE_FLEET_HOST |-> <<>>,
     inorbit_flowcore_fleet_host |-> <<>>,
     FLOWCORE_FLEET_HOST |-> <<>>,
     INORBIT_FLOWCORE_FLEET_PORT |-> <<>>,
     INORBIT_FLOWCORE_FLEET_USERNAME |-> <<>>,
     INORBIT_FLOWCORE_FLEET_PASSWORD |-> <<>>]

EmptyDotenv ==
    [INORBIT_FLOWCORE_FLEET_HOST |-> <<>>, INORBIT_FLOWCORE_FLEET_PORT |-> <<>>]

NoKwargs ==
    [fleet_host |-> <<>>, fleet_port |-> <<>>, fleet_username |-> <<>>,
     fleet_password |-> <<>>]

NoDoc == [kind |-> "none", data |-> <<>>]

NoCall == [status |-> "none"]

\* The process has not run: the state of every variable of start() and of
\* the connector before the first statement.
ProcessInit ==
    /\ pc = "load"
    /\ configLoads = 0
    /\ exitCode = 0
    /\ report = <<>>
    /\ connector = [constructed |-> FALSE, robot_ids |-> <<>>]
    /\ handlerInstalled = FALSE
    /\ driver = "Disconnected"
    /\ stopRequested = FALSE
    /\ sigints = 0
    /\ lifecycleLog = <<>>
    /\ ticksInProgress = 0
    /\ tickBodyRan = FALSE
    /\ published = <<>>
    /\ lastCommand = NoCall
    /\ lastMap = NoCall

\* ------------------------------- specification of FlowcoreConfig alone

InitSettings ==
    /\ kwargs \in KwargsSet
    /\ environ \in EnvironSet
    /\ dotenv \in DotenvSet
    /\ settings = Unset
    /\ doc = NoDoc
    /\ config = Unset
    /\ ProcessInit

\* config = FlowcoreConfig(fleet_host=..., ...) as the tests call it
BuildSettings ==
    /\ settings.status = "unset"
    /\ settings' = FlowcoreConfig(kwargs, environ, dotenv)
    /\ UNCHANGED <<kwargs, environ, dotenv, doc, config>>
    /\ UNCHANGED <<entryVars, driverVars, tickVars, hookVars>>

NextSettings == BuildSettings

SpecSettings == InitSettings /\ [][NextSettings]_vars

\* ----------------------- specification of FlowcoreConnectorConfig alone

RobotId(i) == "robot-" \o ToString(i)

RawIds == {"1", "2", "3", "x"}

\* The fleets of 1..n entries; robot_id values are distinct by position
Fleets(n, ids) ==
    UNION {{[i \in 1..k |-> [robot_id |-> RobotId(i), fleet_robot_id |-> f[i]]] :
               f \in [1..k -> ids]} : k \in 1..n}

CompleteKwargs ==
    [fleet_host |-> <<"yaml-fleet.example.com">>, fleet_port |-> <<"8080">>,
     fleet_username |-> <<"yaml-user">>, fleet_password |-> <<"yaml-pass">>]

NoHostKwargs == [CompleteKwargs EXCEPT !.fleet_host = <<>>]

HostEnviron ==
    [EmptyEnviron EXCEPT !.INORBIT_FLOWCORE_FLEET_HOST = <<"env-fleet.example.com">>]

InitConfig ==
    /\ doc \in [kind : {"mapping"},
                data : [connector_type : {"flowcore", "other", "Flowcore", ""},
                        connector_config : {CompleteKwargs, NoHostKwargs},
                        fleet : Fleets(MaxFleet, RawIds)]]
    /\ environ \in {EmptyEnviron, HostEnviron}
    /\ dotenv = EmptyDotenv
    /\ kwargs = NoKwargs
    /\ settings = Unset
    /\ config = Unset
    /\ ProcessInit

\* config = FlowcoreConnectorConfig(**data) as the tests call it
BuildConfig ==
    /\ config.status = "unset"
    /\ config' = FlowcoreConnectorConfig(doc.data, environ, dotenv)
    /\ UNCHANGED <<kwargs, settings, environ, dotenv, doc>>
    /\ UNCHANGED <<entryVars, driverVars, tickVars, hookVars>>

NextConfig == BuildConfig

SpecConfig == InitConfig /\ [][NextConfig]_vars

\* ------------------------------------------- connector.py: the hooks

\* flowcore_connector.__version__ where the package metadata is not found
connector_version == "unknown"

NoMap == [kind |-> "none"]

\* async def _connect(self)
_connect == [raised |-> FALSE, info |-> "Connected to FLOWCore API"]

\* async def _disconnect(self)
_disconnect == [raised |-> FALSE, info |-> "Disconnected from FLOWCore API"]

\* for robot_id in robot_ids: self.publish_robot_key_values(robot_id, {...})
RECURSIVE PublishEach(_, _)
PublishEach(robot_ids, calls) ==
    IF robot_ids = <<>>
    THEN calls
    ELSE PublishEach(Tail(robot_ids),
            Append(calls, [robot_id |-> Head(robot_ids),
                           key_values |-> [connector_version |-> connector_version]]))

_execution_loop_from_second(self) == PublishEach(Tail(self.robot_ids), <<>>)

\* async def _execution_loop(self): the publish calls it makes, in order;
\* publish_robot_key_values, the platform's sink, is taken to return normally
_execution_loop(self) == PublishEach(self.robot_ids, <<>>)

_inorbit_robot_command_handler_catching(robot_id, command_name, args, options) ==
    IF options.result_function = <<>>
    THEN [calls |-> <<>>, raised |-> "none"]
    ELSE IF options.result_function = <<"raises">>
    THEN [calls |-> <<"SUCCESS", "FAILURE">>, raised |-> "none"]
    ELSE [calls |-> <<"SUCCESS">>, raised |-> "none"]

\* async def _inorbit_robot_command_handler(self, robot_id, command_name, args,
\* options): the calls made to options["result_function"] and the exception
\* that leaves the hook.  options.result_function is <<>> when the key is
\* missing, else how the callable behaves when called.
_inorbit_robot_command_handler(robot_id, command_name, args, options) ==
    IF options.result_function = <<>>
    THEN [calls |-> <<>>, raised |-> "KeyError"]
    ELSE IF options.result_function = <<"raises">>
    THEN [calls |-> <<"SUCCESS">>, raised |-> "Exception"]
    ELSE [calls |-> <<"SUCCESS">>, raised |-> "none"]

fetch_robot_map_uncaught(robot_id, frame_id, fault) ==
    IF fault
    THEN [returned |-> NoMap, raised |-> "Exception", errorLogged |-> FALSE]
    ELSE [returned |-> [kind |-> "map", image |-> <<>>, map_id |-> frame_id,
                        map_label |-> "", origin_x |-> 0, origin_y |-> 0,
                        resolution |-> 0],
          raised |-> "none", errorLogged |-> FALSE]

\* async def fetch_robot_map(self, robot_id, frame_id); fault: the statement
\* in the try block, the construction of MapConfigTemp, raises an Exception
fetch_robot_map(robot_id, frame_id, fault) ==
    IF fault
    THEN [returned |-> NoMap, raised |-> "none", errorLogged |-> TRUE]
    ELSE [returned |-> [kind |-> "map", image |-> <<>>, map_id |-> frame_id,
                        map_label |-> "", origin_x |-> 0, origin_y |-> 0,
                        resolution |-> 0],
          raised |-> "none", errorLogged |-> FALSE]

\* ------------------------------------- the lifecycle base of the connector

\* connector.start(): Disconnected -> Connecting
DriverStart == driver = "Disconnected" /\ driver' = "Connecting"

\* connector.stop(): the request to shut down
stop == stopRequested' = TRUE

\* connector.join() returns once the connector is Disconnected
Joined == driver = "Disconnected"

\* Connecting: on-connect is invoked; Connected unless it fails
DriverConnect ==
    /\ driver = "Connecting"
    /\ lifecycleLog' = Append(lifecycleLog, _connect.info)
    /\ driver' = IF _connect.raised THEN "Disconnected" ELSE "Connected"
    /\ UNCHANGED <<stopRequested, sigints>>
    /\ UNCHANGED <<configVars, entryVars, tickVars, hookVars>>

TickFireOverlapping ==
    /\ driver = "Connected"
    /\ ~stopRequested
    /\ ticksInProgress < 2
    /\ ticksInProgress' = ticksInProgress + 1
    /\ tickBodyRan' = FALSE
    /\ published' = <<>>
    /\ UNCHANGED <<configVars, entryVars, driverVars, hookVars>>

\* The timer starts a tick: only while Connected, no stop requested, and no
\* tick in progress
TickFire ==
    /\ driver = "Connected"
    /\ ~stopRequested
    /\ ticksInProgress = 0
    /\ ticksInProgress' = ticksInProgress + 1
    /\ tickBodyRan' = FALSE
    /\ published' = <<>>
    /\ UNCHANGED <<configVars, entryVars, driverVars, hookVars>>

\* The tick in progress runs its hook, which has no suspension point
ExecutionLoop ==
    /\ ticksInProgress > 0
    /\ ~tickBodyRan
    /\ published' = published \o _execution_loop(connector)
    /\ tickBodyRan' = TRUE
    /\ UNCHANGED ticksInProgress
    /\ UNCHANGED <<configVars, entryVars, driverVars, hookVars>>

\* The tick in progress completes
TickComplete ==
    /\ ticksInProgress > 0
    /\ tickBodyRan
    /\ ticksInProgress' = ticksInProgress - 1
    /\ UNCHANGED <<tickBodyRan, published>>
    /\ UNCHANGED <<configVars, entryVars, driverVars, hookVars>>

\* A requested stop takes effect: Connected -> Disconnecting, the tick in
\* progress, if any, is abandoned
DriverStop ==
    /\ driver = "Connected"
    /\ stopRequested
    /\ driver' = "Disconnecting"
    /\ ticksInProgress' = 0
    /\ UNCHANGED <<tickBodyRan, published>>
    /\ UNCHANGED <<stopRequested, sigints, lifecycleLog>>
    /\ UNCHANGED <<configVars, entryVars, hookVars>>

\* Disconnecting: on-disconnect is invoked, then Disconnected
DriverDisconnect ==
    /\ driver = "Disconnecting"
    /\ lifecycleLog' = Append(lifecycleLog, _disconnect.info)
    /\ driver' = "Disconnected"
    /\ UNCHANGED <<stopRequested, sigints>>
    /\ UNCHANGED <<configVars, entryVars, tickVars, hookVars>>

OptionsSet == [result_function : Opt({"returns", "raises"})]

FrameIds == {"map"}

\* A command arrives for a robot of the fleet while Connected
Command ==
    /\ driver = "Connected"
    /\ \E robot_id \in Range(connector.robot_ids), options \in OptionsSet :
          lastCommand' =
              [status |-> "done", robot_id |-> robot_id, options |-> options,
               tick_in_progress |-> ticksInProgress > 0,
               outcome |-> _inorbit_robot_command_handler(
                               robot_id, "command", <<>>, options)]
    /\ UNCHANGED lastMap
    /\ UNCHANGED <<configVars, entryVars, driverVars, tickVars>>

\* A pose names a frame without a map while Connected
FetchMap ==
    /\ driver = "Connected"
    /\ \E robot_id \in Range(connector.robot_ids), frame_id \in FrameIds,
          fault \in BOOLEAN :
          lastMap' =
              [status |-> "done", robot_id |-> robot_id, frame_id |-> frame_id,
               fault |-> fault, tick_in_progress |-> ticksInProgress > 0,
               outcome |-> fetch_robot_map(robot_id, frame_id, fault)]
    /\ UNCHANGED lastCommand
    /\ UNCHANGED <<configVars, entryVars, driverVars, tickVars>>

\* ------------------------------------------ flowcore_connector.py: start()

Exit(code, message) ==
    /\ pc' = "exited"
    /\ exitCode' = code
    /\ report' = message

LoadConfigContinuing ==
    /\ pc = "load"
    /\ configLoads' = configLoads + 1
    /\ IF doc.kind = "missing"
       THEN /\ Exit(1, <<"LOGGER.error", "Configuration file not found">>)
            /\ UNCHANGED config
       ELSE IF doc.kind = "unparsable"
       THEN /\ Exit(1, <<"traceback", "yaml.YAMLError">>)
            /\ UNCHANGED config
       ELSE /\ config' = FlowcoreConnectorConfig(doc.data, environ, dotenv)
            /\ pc' = "construct"
            /\ report' = IF config'.status = "error"
                         THEN <<"LOGGER.error", "Configuration validation error">>
                         ELSE report
            /\ UNCHANGED exitCode
    /\ UNCHANGED <<connector, handlerInstalled>>
    /\ UNCHANGED <<kwargs, settings, environ, dotenv, doc>>
    /\ UNCHANGED <<driverVars, tickVars, hookVars>>

\* The try block of start(): read_yaml, FlowcoreConnectorConfig(**yaml_data)
\* and the two except clauses.  The parse error of read_yaml is neither a
\* FileNotFoundError nor a ValueError: it ends the process with a traceback
\* and status 1.  A failed construction binds no configuration.
LoadConfig ==
    /\ pc = "load"
    /\ configLoads' = configLoads + 1
    /\ IF doc.kind = "missing"
       THEN /\ Exit(1, <<"LOGGER.error", "Configuration file not found">>)
            /\ UNCHANGED config
       ELSE IF doc.kind = "unparsable"
       THEN /\ Exit(1, <<"traceback", "yaml.YAMLError">>)
            /\ UNCHANGED config
       ELSE LET built == FlowcoreConnectorConfig(doc.data, environ, dotenv)
            IN  IF built.status = "error"
                THEN /\ Exit(1, <<"LOGGER.error", "Configuration validation error">>)
                     /\ UNCHANGED config
                ELSE /\ config' = built
                     /\ pc' = "construct"
                     /\ UNCHANGED <<exitCode, report>>
    /\ UNCHANGED <<connector, handlerInstalled>>
    /\ UNCHANGED <<kwargs, settings, environ, dotenv, doc>>
    /\ UNCHANGED <<driverVars, tickVars, hookVars>>

\* connector = FlowcoreConnector(config)
ConstructConnector ==
    /\ pc = "construct"
    /\ connector' =
          [constructed |-> TRUE,
           robot_ids |-> IF config.status = "ok"
                         THEN [i \in DOMAIN config.fleet |-> config.fleet[i].robot_id]
                         ELSE <<>>]
    /\ pc' = "start"
    /\ UNCHANGED <<exitCode, report, handlerInstalled, configLoads>>
    /\ UNCHANGED <<configVars, driverVars, tickVars, hookVars>>

\* connector.start()
ConnectorStart ==
    /\ pc = "start"
    /\ DriverStart
    /\ pc' = "signal"
    /\ UNCHANGED <<exitCode, report, connector, handlerInstalled, configLoads>>
    /\ UNCHANGED <<stopRequested, sigints, lifecycleLog>>
    /\ UNCHANGED <<configVars, tickVars, hookVars>>

\* signal.signal(signal.SIGINT, ...)
InstallHandler ==
    /\ pc = "signal"
    /\ handlerInstalled' = TRUE
    /\ pc' = "join"
    /\ UNCHANGED <<exitCode, report, connector, configLoads>>
    /\ UNCHANGED <<configVars, driverVars, tickVars, hookVars>>

SigintHandlerNotCalling == UNCHANGED stopRequested

\* lambda sig, frame: connector.stop()
SigintHandler == stop

\* A SIGINT reaches the process while the handler is installed (one that
\* arrives earlier meets Python's default handler and requests no stop)
Sigint ==
    /\ pc = "join"
    /\ handlerInstalled
    /\ sigints < MaxSigints
    /\ sigints' = sigints + 1
    /\ SigintHandler
    /\ UNCHANGED <<driver, lifecycleLog>>
    /\ UNCHANGED <<configVars, entryVars, tickVars, hookVars>>

\* connector.join(), then start() returns
Join ==
    /\ pc = "join"
    /\ Joined
    /\ Exit(0, <<>>)
    /\ UNCHANGED <<connector, handlerInstalled, configLoads>>
    /\ UNCHANGED <<configVars, driverVars, tickVars, hookVars>>

\* --------------------------------------------- the connector as a process

Ascending(n) ==
    [i \in 1..n |-> [robot_id |-> RobotId(i), fleet_robot_id |-> ToString(i)]]

Repeated(n) == [Ascending(n) EXCEPT ![n].fleet_robot_id = "1"]

Docs ==
    {[kind |-> "missing", data |-> <<>>], [kind |-> "unparsable", data |-> <<>>]}
    \cup
    [kind : {"mapping"},
     data : [connector_type : {"flowcore", "other"},
             connector_config : {CompleteKwargs, NoHostKwargs},
             fleet : {Ascending(n) : n \in 1..MaxFleet}
                     \cup {Repeated(n) : n \in 2..MaxFleet}
                     \cup {[Ascending(1) EXCEPT ![1].fleet_robot_id = "x"]}]]

Init ==
    /\ doc \in Docs
    /\ environ \in {EmptyEnviron, HostEnviron}
    /\ dotenv = EmptyDotenv
    /\ kwargs = NoKwargs
    /\ settings = Unset
    /\ config = Unset
    /\ ProcessInit

EntryNext ==
    \/ LoadConfig
    \/ ConstructConnector
    \/ ConnectorStart
    \/ InstallHandler
    \/ Join

Next ==
    \/ EntryNext
    \/ Sigint
    \/ DriverConnect
    \/ TickFire
    \/ ExecutionLoop
    \/ TickComplete
    \/ DriverStop
    \/ DriverDisconnect
    \/ Command
    \/ FetchMap

Spec == Init /\ [][Next]_vars

\* The main thread and the connector's own thread are both scheduled; ticks,
\* commands, map requests and signals come from outside and may never come.
FairSpec ==
    /\ Spec
    /\ WF_vars(EntryNext)
    /\ WF_vars(DriverConnect)
    /\ WF_vars(DriverStop)
    /\ WF_vars(DriverDisconnect)

\* ------------------------------------------------ claims on FlowcoreConfig

\* The value a set of variables holds for field f under the name
\* INORBIT_FLOWCORE_<FIELD>, whatever the case of the name; <<>> when unset
Variable(variables, f) ==
    LET wanted == Lower("INORBIT_FLOWCORE_" \o Upper(f))
        named == {n \in DOMAIN variables :
                     variables[n] # <<>> /\ Lower(n) = wanted}
    IN  IF named = {} THEN <<>> ELSE variables[CHOOSE n \in named : TRUE]

NonEmpty(o) == o # <<>> /\ o # <<"">>

\* The first of the optional values that is supplied; <<>> when none is
FirstOf(options) ==
    LET at == {i \in DOMAIN options : options[i] # <<>>}
    IN  IF at = {} THEN <<>>
        ELSE options[CHOOSE i \in at : \A j \in at : i <= j]

Only(cond, o) == IF cond THEN o ELSE <<>>

OnlyNonEmpty(o) == Only(NonEmpty(o), o)

\* The kind of failure a field must show when w is its winning value
ExpectedError(f, w) ==
    IF w = <<>>
    THEN IF HasDefault(f) THEN "none" ELSE "missing"
    ELSE IF IsIntField(f) /\ w[1] \notin IntLiterals THEN "int_parsing" ELSE "none"

HasError(result, f, type) ==
    /\ result.status = "error"
    /\ \E e \in result.errors : e.loc = <<f>> /\ e.type = type

\* Field f of result is resolved as from the winning value w: converted to
\* the field's type, defaulted when there is none, or failed, naming f
ResolvedFrom(result, f, w) ==
    /\ ExpectedError(f, w) = "none" =>
          /\ result.status = "ok" =>
                result[f] = IF w = <<>> THEN fleet_port_default
                            ELSE IF IsIntField(f) THEN IntOf(w[1]) ELSE w[1]
          /\ result.status = "error" =>
                \A e \in result.errors : e.loc # <<f>>
    /\ ExpectedError(f, w) # "none" => HasError(result, f, ExpectedError(f, w))
    /\ result.status = "error" => result.errors # {}

\* C3 as stated: explicit, else the environment variable, else the default
\* (80 for fleet_port), else a missing-field error naming the field.
C3_ExplicitEnvDefault ==
    settings.status # "unset" =>
        \A f \in FieldSet :
            ResolvedFrom(settings, f,
                FirstOf(<<kwargs[f], OnlyNonEmpty(Variable(environ, f))>>))

\* C3, amended: each fleet settings field resolves, independently of the
\* others, to the explicit value if one is given; otherwise to the non-empty
\* environment variable INORBIT_FLOWCORE_<FIELD> (name matched without
\* regard to case); otherwise to the non-empty variable of that name in the
\* env file config/.env; otherwise to the default (80 for fleet_port, none
\* for the others).  The winning value is converted to the field's type and
\* resolution fails naming the field when it does not convert or when a
\* required field has no value.
C3_ExplicitEnvFileDefault ==
    settings.status # "unset" =>
        \A f \in FieldSet :
            ResolvedFrom(settings, f,
                FirstOf(<<kwargs[f], OnlyNonEmpty(Variable(environ, f)),
                          OnlyNonEmpty(Variable(dotenv, f))>>))

\* C3 witness: host explicit over a differing environment value, username
\* from the environment alone, the port from its default
C3_Witness ==
    /\ settings.status = "ok"
    /\ kwargs.fleet_host = <<"yaml-fleet.example.com">>
    /\ environ.INORBIT_FLOWCORE_FLEET_HOST = <<"env-fleet.example.com">>
    /\ settings.fleet_host = "yaml-fleet.example.com"
    /\ kwargs.fleet_username = <<>>
    /\ settings.fleet_username = "env-user"
    /\ kwargs.fleet_port = <<>>
    /\ settings.fleet_port = 80

\* C10 as stated: an explicit value that is present but empty does not win,
\* and resolution falls through to the environment, the default, failure.
C10_EmptyExplicitFallsThrough ==
    settings.status # "unset" =>
        \A f \in FieldSet :
            ResolvedFrom(settings, f,
                FirstOf(<<OnlyNonEmpty(kwargs[f]),
                          OnlyNonEmpty(Variable(environ, f)),
                          OnlyNonEmpty(Variable(dotenv, f))>>))

\* C10, amended: an explicit value that is present but empty still wins (an
\* empty text is the resolved value of a text field, and an empty fleet_port
\* fails validation naming fleet_port); an environment variable that is set
\* but empty is skipped in favour of the later sources and then the default
\* or a missing-field failure.
C10_OnlyEmptyEnvironmentSkipped ==
    settings.status # "unset" =>
        \A f \in FieldSet :
            /\ kwargs[f] = <<"">> =>
                  /\ IsIntField(f) => HasError(settings, f, "int_parsing")
                  /\ ~IsIntField(f) =>
                        /\ settings.status = "ok" => settings[f] = ""
                        /\ ~HasError(settings, f, "missing")
            /\ kwargs[f] = <<>> /\ Variable(environ, f) = <<"">> =>
                  ResolvedFrom(settings, f, OnlyNonEmpty(Variable(dotenv, f)))

\* C10 witness: an empty explicit host kept although the environment has
\* one, and an empty environment port skipped for the default
C10_Witness ==
    /\ settings.status = "ok"
    /\ kwargs.fleet_host = <<"">>
    /\ environ.INORBIT_FLOWCORE_FLEET_HOST = <<"env-fleet.example.com">>
    /\ settings.fleet_host = ""
    /\ kwargs.fleet_port = <<>>
    /\ environ.INORBIT_FLOWCORE_FLEET_PORT = <<"">>
    /\ settings.fleet_port = 80

\* ---------------------------------------- claims on FlowcoreConnectorConfig

Built == config.status # "unset" /\ doc.kind = "mapping"

SharedId(fleet) ==
    \E i, j \in DOMAIN fleet :
        i # j /\ fleet[i].fleet_robot_id = fleet[j].fleet_robot_id

UniqueError ==
    [loc |-> <<>>, type |-> "value_error",
     msg |-> <<"fleet_robot_id", " values must be unique">>]

\* Every field of the payload passes its own validation
FieldsValid(data) ==
    /\ data.connector_type = CONNECTOR_TYPE
    /\ \A f \in FieldSet :
          ExpectedError(f, FirstOf(<<data.connector_config[f],
                                     OnlyNonEmpty(Variable(environ, f)),
                                     OnlyNonEmpty(Variable(dotenv, f))>>)) = "none"
    /\ \A i \in DOMAIN data.fleet : data.fleet[i].fleet_robot_id \in IntLiterals

\* C1 as stated: a configuration is produced only from pairwise distinct
\* fleet_robot_id values, and any payload with a shared fleet_robot_id fails
\* with the error that names fleet_robot_id.
C1_AnyDuplicateNamed ==
    Built =>
        /\ config.status = "ok" => ~SharedId(config.fleet)
        /\ SharedId(doc.data.fleet) =>
              config.status = "error" /\ UniqueError \in config.errors

\* C1, amended: a configuration is produced only from pairwise distinct
\* fleet_robot_id values; a payload in which two entries, at any positions,
\* share a fleet_robot_id always fails and produces no configuration, and
\* its error is the one naming fleet_robot_id when every field of the
\* payload passes its own validation; when a field fails too (connector_type,
\* a fleet setting, a fleet_robot_id that is no integer) the error lists the
\* field failures and not the duplicate.
C1_DuplicateNamedWhenFieldsValid ==
    Built =>
        /\ config.status = "ok" => ~SharedId(config.fleet)
        /\ SharedId(doc.data.fleet) =>
              /\ config.status = "error"
              /\ FieldsValid(doc.data) => config.errors = {UniqueError}
              /\ ~FieldsValid(doc.data) => UniqueError \notin config.errors

\* C1 witness: the first and third entries share an id, the second differs
C1_Witness ==
    /\ Built
    /\ Len(doc.data.fleet) = 3
    /\ doc.data.fleet[1].fleet_robot_id = "1"
    /\ doc.data.fleet[2].fleet_robot_id = "2"
    /\ doc.data.fleet[3].fleet_robot_id = "1"
    /\ FieldsValid(doc.data)
    /\ config.errors = {UniqueError}

\* C2: a configuration is produced only when connector_type is "flowcore";
\* any other value fails with an error on connector_type that carries the
\* expected value "flowcore" and the value supplied.
C2_ConnectorTypeChecked ==
    Built =>
        /\ config.status = "ok" => doc.data.connector_type = "flowcore"
        /\ doc.data.connector_type # "flowcore" =>
              /\ config.status = "error"
              /\ \E e \in config.errors :
                    /\ e.loc = <<"connector_type">>
                    /\ "flowcore" \in Range(e.msg)
                    /\ doc.data.connector_type \in Range(e.msg)

\* C2 witness: an otherwise valid payload typed "other" fails on that alone
C2_Witness ==
    /\ Built
    /\ doc.data.connector_type = "other"
    /\ doc.data.connector_config = CompleteKwargs
    /\ ~SharedId(doc.data.fleet)
    /\ \A i \in DOMAIN doc.data.fleet : doc.data.fleet[i].fleet_robot_id \in IntLiterals
    /\ config.status = "error"
    /\ Cardinality(config.errors) = 1

\* ------------------------------------------------------ claims on the hooks

C5_MapOrNoMap ==
    lastMap.status = "done" =>
        LET out == lastMap.outcome
        IN  /\ out.raised = "none"
            /\ lastMap.fault => out.returned = NoMap /\ out.errorLogged
            /\ ~lastMap.fault =>
                  /\ out.returned.kind = "map"
                  /\ out.returned.map_id = lastMap.frame_id
                  /\ DOMAIN out.returned =
                        {"kind", "image", "map_id", "map_label", "origin_x",
                         "origin_y", "resolution"}

\* C5 witness: the fetch step raised and the hook returned "no map"
C5_Witness ==
    /\ lastMap.status = "done"
    /\ lastMap.fault
    /\ lastMap.outcome.returned = NoMap

\* C6: a tick whose hook has run has made exactly one publish call per robot
\* of the fleet, keyed by its robot_id and holding the connector version.
C6_OnePublishPerRobot ==
    tickBodyRan =>
        /\ Len(published) = Len(connector.robot_ids)
        /\ \A r \in Range(connector.robot_ids) :
              Cardinality({i \in DOMAIN published : published[i].robot_id = r}) = 1
        /\ \A i \in DOMAIN published :
              /\ published[i].robot_id \in Range(connector.robot_ids)
              /\ published[i].key_values.connector_version = connector_version

\* C6 witness: a fleet of three robots and a tick that made three calls
C6_Witness ==
    /\ tickBodyRan
    /\ Len(connector.robot_ids) = 3
    /\ Len(published) = 3

\* C8: at most one tick is in progress, and only while the connector is
\* Connected, whatever commands and map requests are interleaved.
C8_TicksSequentialWhileConnected ==
    /\ ticksInProgress <= 1
    /\ ticksInProgress > 0 => driver = "Connected"
    /\ driver # "Connected" => ticksInProgress = 0

\* C8 witness: a tick in progress during which a command and a map request
\* were handled
C8_Witness ==
    /\ ticksInProgress = 1
    /\ lastCommand.status = "done"
    /\ lastCommand.tick_in_progress
    /\ lastMap.status = "done"
    /\ lastMap.tick_in_progress

\* ------------------------------------------------- claims on the process

\* The startup failure a document carries: none when it loads and validates
StartupFailure ==
    IF doc.kind = "missing" THEN "file_not_found"
    ELSE IF doc.kind = "unparsable" THEN "parse"
    ELSE IF doc.data.connector_type # CONNECTOR_TYPE THEN "connector_type"
    ELSE IF ~FieldsValid(doc.data) THEN "schema"
    ELSE IF SharedId(doc.data.fleet) THEN "duplicate"
    ELSE "none"

\* C9: a startup failure is reported, ends the process with a non-zero exit
\* code after one reading of the document, and leaves the connector neither
\* constructed nor started; the connector is constructed and started only
\* with a configuration that loaded and validated.
C9_StartupFailureIsFatal ==
    /\ configLoads <= 1
    /\ StartupFailure # "none" /\ pc # "load" =>
          /\ pc = "exited"
          /\ exitCode # 0
          /\ report # <<>>
          /\ config.status = "unset"
          /\ ~connector.constructed
          /\ driver = "Disconnected"
          /\ lifecycleLog = <<>>
    /\ connector.constructed \/ driver # "Disconnected" \/ lifecycleLog # <<>> =>
          /\ StartupFailure = "none"
          /\ config.status = "ok"
          /\ configLoads = 1

\* C9 witness: a document with a duplicate fleet_robot_id ended the process
C9_Witness ==
    /\ StartupFailure = "duplicate"
    /\ pc = "exited"
    /\ exitCode = 1

DisconnectCalls ==
    Cardinality({i \in DOMAIN lifecycleLog : lifecycleLog[i] = _disconnect.info})

Released == pc = "exited" /\ exitCode = 0

\* C7: a Connected connector leaves that state only on a requested stop and
\* only for Disconnecting; it leaves Disconnecting only for Disconnected,
\* invoking on-disconnect as it does, once in all; join() releases start()
\* only when Disconnected is reached; and once stop() is requested, by the
\* SIGINT handler of start(), start() is eventually released.
C7_StopThenDisconnectThenRelease ==
    /\ [][driver = "Connected" /\ driver' # "Connected" =>
            stopRequested /\ driver' = "Disconnecting"]_vars
    /\ [][driver = "Disconnecting" /\ driver' # "Disconnecting" =>
            /\ driver' = "Disconnected"
            /\ lifecycleLog' = Append(lifecycleLog, _disconnect.info)]_vars
    /\ [](DisconnectCalls <= 1)
    /\ [](Released => driver = "Disconnected" /\ DisconnectCalls = 1)
    /\ (stopRequested ~> Released)
    /\ (sigints > 0 ~> Released)

\* C7 witness: a SIGINT requested the stop and start() was released
C7_Witness ==
    /\ Released
    /\ sigints > 0
    /\ stopRequested
    /\ driver = "Disconnected"
    /\ DisconnectCalls = 1

====
